---- MODULE Spec2Model ----
(***************************************************************************)
(* Model of scalar-surreal (src/scalar-surreal/src/lib.rs): the            *)
(* DatabaseConnection implementation of SurrealConnection over the three   *)
(* tables of one document type (published, draft, meta).                   *)
(*                                                                         *)
(* Granularity.  A chain of .query(..) calls is one request, but none of   *)
(* the chains in lib.rs contains BEGIN TRANSACTION / COMMIT, so the store  *)
(* runs every statement of the chain in a transaction of its own.  Each    *)
(* writing statement is therefore one atomic step of the model, and the    *)
(* statements of two requests may interleave.  The LET statements only     *)
(* compute request-local record ids and are folded into the call step.     *)
(***************************************************************************)
EXTENDS Integers, FiniteSets, Sequences, TLC

\* ------------------------------------------------------------------ bounds
MaxTime == 1        \* time::now() ranges over 0..MaxTime
MaxOps == 3         \* number of calls made on the connection
MaxIdentLen == 3    \* pieces in a document identifier
MaxDocs == 2        \* document types handed to init_doc

\* ------------------------------------------------------------------ inputs
Clients == {1, 2}                 \* concurrent callers sharing the store
Ids == {"a", "b"}                 \* the id argument
Payloads == {"p1", "p2"}          \* the inner payload (a JSON object)
NONE == "NONE"                    \* SurrealDB's NONE value
NoTime == {}                      \* Option<DateTime>::None; Some(t) is {t}
PublishedAts == {NoTime, {1}}     \* item.published_at handed to put
Absent == [absent |-> TRUE]       \* no record under that id

VARIABLES
    draft_table,      \* {doc}_draft : id -> record [inner]
    meta_table,       \* {doc}_meta  : id -> record [created_at, modified_at, draft, published]
    published_table,  \* {doc}       : id -> record written by put
    now,              \* the store's clock, read by time::now()
    pc,               \* per client: the statement its request is at
    args,             \* per client: the bindings of the request in flight
    ret,              \* the response most recently returned to a caller
    nops,             \* calls made so far
    store_cfg,        \* SurrealStore: the configured namespace and db
    conn,             \* SurrealConnection: its fields and the session's ns/db
    auth,             \* the last authenticate / signin call and its result
    submitted         \* table names embedded in the statements init_doc submitted

doc_vars == <<draft_table, meta_table, published_table, now, pc, args, ret, nops>>
setup_vars == <<store_cfg, conn, auth, submitted>>
vars == <<doc_vars, setup_vars>>

\* solo: no other draft or put on the same id overlapped this request (bookkeeping).
\* pre: the draft payload the request found under its id (bookkeeping).
NoArgs == [id |-> NONE, inner |-> NONE, solo |-> TRUE, pre |-> NONE]
NoRet == [op |-> "init", id |-> NONE, inner |-> NONE, kind |-> "init",
          items |-> {}, solo |-> TRUE, pre |-> NONE]
Response(op, id, inner, kind, items, solo, pre) ==
    [op |-> op, id |-> id, inner |-> inner, kind |-> kind,
     items |-> items, solo |-> solo, pre |-> pre]

\* ------------------------------------------------------- the SELECT (views)
\* `ref.inner` after FETCH: NONE when the link is NONE or dangling.
FetchInner(tbl, ref) ==
    IF ref = NONE THEN NONE
    ELSE IF tbl[ref] = Absent THEN NONE
    ELSE tbl[ref].inner

\* `published.published_at`: only the published table carries the field.
FetchPublishedAt(tbl, ref) ==
    IF ref = NONE THEN NoTime
    ELSE IF tbl[ref] = Absent THEN NoTime
    ELSE tbl[ref].published_at

\* Variant with the precedence reversed (published payload first).
MergedInnerPublishedFirst(m, d_tbl, p_tbl) ==
    IF m.published # NONE THEN FetchInner(p_tbl, m.published)
    ELSE FetchInner(d_tbl, m.draft)

\* IF draft IS NOT NONE THEN draft.inner ELSE published.inner END AS inner
MergedInner(m, d_tbl, p_tbl) ==
    IF m.draft # NONE THEN FetchInner(d_tbl, m.draft)
    ELSE FetchInner(p_tbl, m.published)

\* One projected row of the SELECT, as SurrealItem / Item.
Projection(id, m, d_tbl, p_tbl) ==
    [id |-> id,
     created_at |-> m.created_at,
     modified_at |-> m.modified_at,
     inner |-> MergedInner(m, d_tbl, p_tbl),
     published_at |-> FetchPublishedAt(p_tbl, m.published)]

\* Variant joining inner-wise: no row unless the published link is populated.
SelectFromMetaInnerJoin(id, m_tbl, d_tbl, p_tbl) ==
    IF m_tbl[id] = Absent \/ m_tbl[id].published = NONE THEN {}
    ELSE {Projection(id, m_tbl[id], d_tbl, p_tbl)}

\* SELECT .. FROM $meta_id FETCH draft, published: the rows found (0 or 1).
\* FETCH is an outer join: a NONE link leaves the row in place.
SelectFromMeta(id, m_tbl, d_tbl, p_tbl) ==
    IF m_tbl[id] = Absent THEN {}
    ELSE {Projection(id, m_tbl[id], d_tbl, p_tbl)}

\* SELECT .. FROM type::table({doc}_meta): one row per meta record.
SelectAllFromMeta(m_tbl, d_tbl, p_tbl) ==
    UNION {SelectFromMeta(id, m_tbl, d_tbl, p_tbl) : id \in Ids}

\* What get_by_id(id) would return in the current state (set of 0 or 1 item).
GetByIdView(id) == SelectFromMeta(id, meta_table, draft_table, published_table)

\* ------------------------------------------------------- writing statements
\* Variant with CREATE semantics: an existing draft record is left as it is.
CreateDraftRecord(tbl, id, inner) ==
    IF tbl[id] = Absent THEN [tbl EXCEPT ![id] = [inner |-> inner]] ELSE tbl

\* UPSERT $draft_id SET inner = $inner
UpsertDraftRecord(tbl, id, inner) ==
    [tbl EXCEPT ![id] = [inner |-> inner]]

\* Variant of the meta upsert addressing the table instead of the record:
\* every existing meta record is rewritten too.
UpsertMetaTable(tbl, id, t_set, t_default) ==
    [x \in DOMAIN tbl |->
        IF tbl[x] # Absent
        THEN [tbl[x] EXCEPT !.draft = id, !.modified_at = t_set]
        ELSE IF x = id
        THEN [created_at |-> t_default, modified_at |-> t_set,
              draft |-> id, published |-> NONE]
        ELSE tbl[x]]

\* Variant that leaves the draft link of a new meta record unset.
UpsertMetaRecordNoLink(tbl, id, t_set, t_default) ==
    IF tbl[id] = Absent
    THEN [tbl EXCEPT ![id] = [created_at |-> t_default, modified_at |-> t_set,
                              draft |-> NONE, published |-> NONE]]
    ELSE [tbl EXCEPT ![id].draft = id, ![id].modified_at = t_set]

\* Variant with created_at recomputed on every write (VALUE instead of DEFAULT).
UpsertMetaRecordResetCreated(tbl, id, t_set, t_default) ==
    [tbl EXCEPT ![id] = [created_at |-> t_set, modified_at |-> t_set,
                         draft |-> id,
                         published |-> IF tbl[id] = Absent THEN NONE
                                       ELSE tbl[id].published]]

\* Variant with UPDATE semantics: a missing meta record is not created.
UpdateMetaRecord(tbl, id, t_set, t_default) ==
    IF tbl[id] = Absent THEN tbl
    ELSE [tbl EXCEPT ![id].draft = id, ![id].modified_at = t_set]

\* UPSERT {doc}_meta:id SET draft = $draft_id, modified_at = time::now()
\* t_set is the clock read of the SET clause.  created_at is filled on
\* creation only, by the field's DEFAULT time::now() (init_doc): t_default is
\* that second clock read.
UpsertMetaRecord(tbl, id, t_set, t_default) ==
    IF tbl[id] = Absent
    THEN [tbl EXCEPT ![id] = [created_at |-> t_default, modified_at |-> t_set,
                              draft |-> id, published |-> NONE]]
    ELSE [tbl EXCEPT ![id].draft = id, ![id].modified_at = t_set]

\* Variant of put's upsert addressing the table: every existing published
\* record is overwritten too.
UpsertPublishedTable(tbl, item) ==
    [x \in DOMAIN tbl |->
        IF x = item.id \/ tbl[x] # Absent
        THEN [created_at |-> item.created_at, modified_at |-> item.modified_at,
              published_at |-> item.published_at, inner |-> item.inner]
        ELSE tbl[x]]

\* upsert((doc, item.id)).content(SurrealItem::from(item))
UpsertPublishedRecord(tbl, item) ==
    [tbl EXCEPT ![item.id] = [created_at |-> item.created_at,
                              modified_at |-> item.modified_at,
                              published_at |-> item.published_at,
                              inner |-> item.inner]]

\* ------------------------------------------------------------------ helpers
InFlight(c) == pc[c] # "idle"
OthersOn(c, id) == {o \in Clients \ {c} : InFlight(o) /\ args[o].id = id}

\* The draft payload stored under an id, NONE when there is none.
DraftInner(id) == FetchInner(draft_table, id)

\* Items a caller can hand to put.
Items == [id : Ids, created_at : {0}, modified_at : {0},
          published_at : PublishedAts, inner : Payloads]

\* ------------------------------------------------ store, session, documents
Names == {"x", "y", "z"}          \* namespace and database names
StoreConfigs == [namespace : Names, db : Names]   \* SurrealStore::new

\* A document identifier is a string; it is kept as the sequence of its
\* pieces, so that format!("{published_table}_draft") is concatenation.
\* " " is a character that may not appear in a table name
\* (hello_world: identifier = "mcdonalds sprite").
Chunks == {"sprite", " ", "_draft", "_meta"}
UnsafeChunks == {" "}
Identifiers == UNION {[1..n -> Chunks] : n \in 1..MaxIdentLen}
Safe(ident) == \A i \in 1..Len(ident) : ident[i] \notin UnsafeChunks

PublishedTableName(ident) == ident
DraftTableName(ident) == ident \o <<"_draft">>
MetaTableName(ident) == ident \o <<"_meta">>

\* The DEFINE statements of init_doc::<D>(), by the table name each embeds.
TableStatements(ident) ==
    {[doc |-> ident, table |-> PublishedTableName(ident)],
     [doc |-> ident, table |-> DraftTableName(ident)],
     [doc |-> ident, table |-> MetaTableName(ident)]}

NoConn == [open |-> FALSE]
\* Ok(SurrealConnection { namespace, db: self.namespace.clone(), inner }) after
\* inner.use_ns(&self.namespace) and inner.use_db(&self.db).
Connection(cfg, root) ==
    [open |-> TRUE, namespace |-> cfg.namespace, db |-> cfg.namespace,
     use_ns |-> cfg.namespace, use_db |-> cfg.db, root |-> root]

\* What the store answers to an authentication request.
StoreErrors == {"Api::Query", "Db::InvalidAuth", "Db::other", "Api::other"}
Tokens == {"valid", "garbage"}
Credentials == {"valid", "invalid"}
\* A rejected token or credential is never answered with Ok.
StoreAnswers(input) ==
    IF input \in {"garbage", "invalid"} THEN StoreErrors ELSE StoreErrors \cup {"Ok"}

AuthResult(kind, error) == [kind |-> kind, error |-> error]

\* signin: |e| match e { Api(Query(_)) | Db(InvalidAuth) => BadCredentials, _ => e.into() }
MapSigninError(e) ==
    IF e = "Ok" THEN AuthResult("Ok", NONE)
    ELSE IF e \in {"Api::Query", "Db::InvalidAuth"} THEN AuthResult("BadCredentials", NONE)
    ELSE AuthResult("Other", e)

\* Variant without the Api(Query(_)) arm: only Db(InvalidAuth) is a bad token.
MapAuthenticateErrorDbOnly(e) ==
    IF e = "Ok" THEN AuthResult("Ok", NONE)
    ELSE IF e = "Db::InvalidAuth" THEN AuthResult("BadToken", NONE)
    ELSE AuthResult("Other", e)

\* authenticate: |e| match e { Api(Query(_)) | Db(InvalidAuth) => BadToken, _ => e.into() }
MapAuthenticateError(e) ==
    IF e = "Ok" THEN AuthResult("Ok", NONE)
    ELSE IF e \in {"Api::Query", "Db::InvalidAuth"} THEN AuthResult("BadToken", NONE)
    ELSE AuthResult("Other", e)

NoAuth == [op |-> "none", input |-> NONE, namespace |-> NONE, database |-> NONE,
           store |-> NONE, result |-> AuthResult("none", NONE)]

\* The document tables are used on a connection that is set up.
SetUp ==
    /\ store_cfg = [namespace |-> "x", db |-> "y"]
    /\ conn = Connection(store_cfg, TRUE)
    /\ auth = NoAuth
    /\ submitted = TableStatements(<<"sprite">>)

Init ==
    /\ draft_table = [id \in Ids |-> Absent]
    /\ meta_table = [id \in Ids |-> Absent]
    /\ published_table = [id \in Ids |-> Absent]
    /\ now = 0
    /\ pc = [c \in Clients |-> "idle"]
    /\ args = [c \in Clients |-> NoArgs]
    /\ ret = NoRet
    /\ nops = 0
    /\ SetUp

\* ------------------------------------------------------------------- actions
\* The store's clock advances.
Tick ==
    /\ now < MaxTime
    /\ now' = now + 1
    /\ UNCHANGED <<draft_table, meta_table, published_table, pc, args, ret, nops, setup_vars>>

\* draft(id, data): the request is submitted; $draft_id and $meta_id are bound.
DraftCall(c, id, inner) ==
    /\ pc[c] = "idle"
    /\ nops < MaxOps
    /\ nops' = nops + 1
    /\ pc' = [pc EXCEPT ![c] = "upsert_draft"]
    /\ args' = [o \in Clients |->
                  IF o = c THEN [id |-> id, inner |-> inner,
                                 solo |-> OthersOn(c, id) = {}, pre |-> DraftInner(id)]
                  ELSE IF o \in OthersOn(c, id) THEN [args[o] EXCEPT !.solo = FALSE]
                  ELSE args[o]]
    /\ UNCHANGED <<draft_table, meta_table, published_table, now, ret, setup_vars>>

\* UPSERT $draft_id SET inner = $inner
DraftUpsertDraft(c) ==
    /\ pc[c] = "upsert_draft"
    /\ draft_table' = UpsertDraftRecord(draft_table, args[c].id, args[c].inner)
    /\ pc' = [pc EXCEPT ![c] = "upsert_meta"]
    /\ UNCHANGED <<meta_table, published_table, now, args, ret, nops, setup_vars>>

\* UPSERT {doc}_meta:id SET draft = $draft_id, modified_at = time::now()
\* The statement reads the clock once for the SET clause and, when it creates
\* the record, once more for the DEFAULT of created_at; the clock may advance
\* between the two reads, in whichever order the store evaluates them.
DraftUpsertMeta(c) ==
    /\ pc[c] = "upsert_meta"
    /\ \E t_set \in now..MaxTime, t_default \in now..MaxTime :
          /\ meta_table[args[c].id] # Absent => t_default = t_set
          /\ meta_table' = UpsertMetaRecord(meta_table, args[c].id, t_set, t_default)
          /\ now' = IF t_set >= t_default THEN t_set ELSE t_default
    /\ pc' = [pc EXCEPT ![c] = "select"]
    /\ UNCHANGED <<draft_table, published_table, args, ret, nops, setup_vars>>

\* The final SELECT, result.take(4) and the two expect()s.
DraftSelect(c) ==
    /\ pc[c] = "select"
    /\ LET rows == SelectFromMeta(args[c].id, meta_table, draft_table, published_table)
       IN ret' = Response("draft", args[c].id, args[c].inner,
                          IF rows = {} THEN "panic" ELSE "some",
                          rows, args[c].solo, args[c].pre)
    /\ pc' = [pc EXCEPT ![c] = "idle"]
    /\ args' = [args EXCEPT ![c] = NoArgs]
    /\ UNCHANGED <<draft_table, meta_table, published_table, now, nops, setup_vars>>

\* delete_draft(id): the query is built but never awaited, then todo!() panics.
DeleteDraft(c, id) ==
    /\ pc[c] = "idle"
    /\ nops < MaxOps
    /\ nops' = nops + 1
    /\ ret' = Response("delete_draft", id, NONE, "panic", {}, TRUE, NONE)
    /\ UNCHANGED <<draft_table, meta_table, published_table, now, pc, args, setup_vars>>

\* put(item): one upsert of the published record; the store's row is returned.
Put(c, item) ==
    /\ pc[c] = "idle"
    /\ nops < MaxOps
    /\ nops' = nops + 1
    /\ published_table' = UpsertPublishedRecord(published_table, item)
    /\ ret' = Response("put", item.id, item.inner, "some", {item}, TRUE, NONE)
    /\ args' = [o \in Clients |->
                  IF o \in OthersOn(c, item.id) THEN [args[o] EXCEPT !.solo = FALSE]
                  ELSE args[o]]
    /\ UNCHANGED <<draft_table, meta_table, now, pc, setup_vars>>

\* delete(id): todo!() panics.
Delete(c, id) ==
    /\ pc[c] = "idle"
    /\ nops < MaxOps
    /\ nops' = nops + 1
    /\ ret' = Response("delete", id, NONE, "panic", {}, TRUE, NONE)
    /\ UNCHANGED <<draft_table, meta_table, published_table, now, pc, args, setup_vars>>

\* get_all(): one SELECT over the meta table.
GetAll(c) ==
    /\ pc[c] = "idle"
    /\ nops < MaxOps
    /\ nops' = nops + 1
    /\ ret' = Response("get_all", NONE, NONE, "vec",
                     SelectAllFromMeta(meta_table, draft_table, published_table),
                     TRUE, NONE)
    /\ UNCHANGED <<draft_table, meta_table, published_table, now, pc, args, setup_vars>>

\* get_by_id(id): one SELECT FROM $meta_id, take::<Option<..>>(1).
GetById(c, id) ==
    /\ pc[c] = "idle"
    /\ nops < MaxOps
    /\ nops' = nops + 1
    /\ LET rows == SelectFromMeta(id, meta_table, draft_table, published_table)
       IN ret' = Response("get_by_id", id, NONE,
                          IF rows = {} THEN "none" ELSE "some", rows, TRUE, NONE)
    /\ UNCHANGED <<draft_table, meta_table, published_table, now, pc, args, setup_vars>>

Next ==
    \/ Tick
    \/ \E c \in Clients, id \in Ids, inner \in Payloads : DraftCall(c, id, inner)
    \/ \E c \in Clients : DraftUpsertDraft(c)
    \/ \E c \in Clients : DraftUpsertMeta(c)
    \/ \E c \in Clients : DraftSelect(c)
    \/ \E c \in Clients, id \in Ids : DeleteDraft(c, id)
    \/ \E c \in Clients, item \in Items : Put(c, item)
    \/ \E c \in Clients, id \in Ids : Delete(c, id)
    \/ \E c \in Clients : GetAll(c)
    \/ \E c \in Clients, id \in Ids : GetById(c, id)

Spec == Init /\ [][Next]_vars

\* ------------------------------------------- the projection as a function
\* The SELECT's projection is a function of the rows it reads.  SpecView
\* draws the three tables from every well-linked content (a reference, when
\* populated, names an existing record of the same id; a meta record has at
\* least one reference) and lets one call run on it.
MetaRows(id) ==
    {Absent} \cup
    {m \in [created_at : {0}, modified_at : {0},
            draft : {NONE, id}, published : {NONE, id}] :
        m.draft # NONE \/ m.published # NONE}
DraftRows == {Absent} \cup [inner : Payloads]
PublishedRows ==
    {Absent} \cup [created_at : {0}, modified_at : {0},
                   published_at : PublishedAts, inner : Payloads]

WellLinked(m_tbl, d_tbl, p_tbl) ==
    \A id \in Ids :
        /\ m_tbl[id] \in MetaRows(id)
        /\ m_tbl[id] # Absent =>
             /\ m_tbl[id].draft # NONE => d_tbl[id] # Absent
             /\ m_tbl[id].published # NONE => p_tbl[id] # Absent

InitView ==
    /\ draft_table \in [Ids -> DraftRows]
    /\ published_table \in [Ids -> PublishedRows]
    /\ meta_table \in [Ids -> UNION {MetaRows(id) : id \in Ids}]
    /\ WellLinked(meta_table, draft_table, published_table)
    /\ now = 0
    /\ pc = [c \in Clients |-> "idle"]
    /\ args = [c \in Clients |-> NoArgs]
    /\ ret = NoRet
    /\ nops = MaxOps - 1
    /\ SetUp

SpecView == InitView /\ [][Next]_vars

\* ------------------------------------------- connection factory and auth
InitSetup ==
    /\ draft_table = [id \in Ids |-> Absent]
    /\ meta_table = [id \in Ids |-> Absent]
    /\ published_table = [id \in Ids |-> Absent]
    /\ now = 0
    /\ pc = [c \in Clients |-> "idle"]
    /\ args = [c \in Clients |-> NoArgs]
    /\ ret = NoRet
    /\ nops = 0
    /\ store_cfg \in StoreConfigs
    /\ conn = NoConn
    /\ auth = NoAuth
    /\ submitted = {}

\* DatabaseFactory::init(): an unauthenticated session.
InitConn ==
    /\ conn' = Connection(store_cfg, FALSE)
    /\ UNCHANGED <<doc_vars, store_cfg, auth, submitted>>

\* DatabaseFactory::init_system(): the session signs in as root.
InitSystem ==
    /\ conn' = Connection(store_cfg, TRUE)
    /\ UNCHANGED <<doc_vars, store_cfg, auth, submitted>>

\* authenticate(jwt): the store's answer, mapped by map_err.
Authenticate(token, answer) ==
    /\ conn.open
    /\ answer \in StoreAnswers(token)
    /\ auth' = [op |-> "authenticate", input |-> token,
                namespace |-> NONE, database |-> NONE,
                store |-> answer, result |-> MapAuthenticateError(answer)]
    /\ UNCHANGED <<doc_vars, store_cfg, conn, submitted>>

\* signin(credentials): Record { namespace: &self.namespace,
\* database: &self.namespace, access: "sc__editor", params }.
Signin(credentials, answer) ==
    /\ conn.open
    /\ answer \in StoreAnswers(credentials)
    /\ auth' = [op |-> "signin", input |-> credentials,
                namespace |-> conn.namespace, database |-> conn.namespace,
                store |-> answer, result |-> MapSigninError(answer)]
    /\ UNCHANGED <<doc_vars, store_cfg, conn, submitted>>

\* init_doc::<D>(): the identifier is formatted into the statements as it is
\* and the statements are submitted.
InitDoc(ident) ==
    /\ conn.open
    /\ Cardinality({s.doc : s \in submitted} \cup {ident}) <= MaxDocs
    /\ submitted' = submitted \cup TableStatements(ident)
    /\ UNCHANGED <<doc_vars, store_cfg, conn, auth>>

NextAuth ==
    \/ InitConn
    \/ InitSystem
    \/ \E token \in Tokens, answer \in StoreErrors \cup {"Ok"} :
          Authenticate(token, answer)
    \/ \E credentials \in Credentials, answer \in StoreErrors \cup {"Ok"} :
          Signin(credentials, answer)

SpecAuth == InitSetup /\ [][NextAuth]_vars

NextSetup ==
    \/ InitConn
    \/ InitSystem
    \/ \E ident \in Identifiers : InitDoc(ident)

SpecSetup == InitSetup /\ [][NextSetup]_vars

\* ------------------------------------------------------------------ claims
Existing(id) == meta_table[id] # Absent \/ published_table[id] # Absent
ViewAfter(id) == SelectFromMeta(id, meta_table', draft_table', published_table')

\* C1: draft, delete_draft and delete are applied as one atomic step: no
\* state can be observed or left in which the draft record of an id is
\* written while the meta record of that id is missing or does not
\* reference it.
C1_AtomicWrites ==
    \A id \in Ids :
        draft_table[id] # Absent =>
            /\ meta_table[id] # Absent
            /\ meta_table[id].draft = id

\* C2: a draft(id, p) that no other request on the id overlaps returns an
\* item (no failure), also when a draft record with another payload was
\* already stored by an earlier draft, and get_by_id(id) then yields inner = p.
C2_DraftOverwrites ==
    [][\A c \in Clients :
         (DraftSelect(c) /\ args[c].solo) =>
            /\ ret'.kind = "some"
            /\ ViewAfter(args[c].id) # {}
            /\ \A it \in ViewAfter(args[c].id) : it.inner = args[c].inner]_vars

C2_Witness ==
    /\ ret.op = "draft" /\ ret.solo /\ ret.kind = "some"
    /\ ret.pre \in Payloads /\ ret.pre # ret.inner
    /\ \E it \in GetByIdView(ret.id) : it.inner = ret.inner

\* C3: delete_draft(id) on an item that has a draft and was never published
\* completes and removes the draft record and the meta record, so that
\* get_by_id(id) returns None.
C3_DeleteDraftOfDraftOnly ==
    [][\A c \in Clients, id \in Ids :
         (/\ DeleteDraft(c, id)
          /\ meta_table[id] # Absent
          /\ published_table[id] = Absent
          /\ draft_table[id] # Absent) =>
            /\ ret'.kind # "panic"
            /\ draft_table'[id] = Absent
            /\ meta_table'[id] = Absent
            /\ ViewAfter(id) = {}]_vars

\* C4: delete_draft(id) on an item that was put and then drafted removes only
\* the draft: the meta record stays with only its published reference, and
\* get_by_id(id) returns the published payload.
C4_DeleteDraftOfPublished ==
    [][\A c \in Clients, id \in Ids :
         (/\ DeleteDraft(c, id)
          /\ meta_table[id] # Absent
          /\ published_table[id] # Absent
          /\ draft_table[id] # Absent) =>
            /\ draft_table'[id] = Absent
            /\ meta_table'[id] # Absent
            /\ meta_table'[id].draft = NONE
            /\ meta_table'[id].published = id
            /\ ViewAfter(id) # {}
            /\ \A it \in ViewAfter(id) : it.inner = published_table[id].inner]_vars

\* C5: put(item) followed by draft(id, p2) leaves get_by_id(id) with inner p2
\* and with the published_at that the put stored.
C5_DraftKeepsPublishedAt ==
    [][\A c \in Clients :
         (/\ DraftSelect(c)
          /\ args[c].solo
          /\ published_table[args[c].id] # Absent) =>
            /\ ViewAfter(args[c].id) # {}
            /\ \A it \in ViewAfter(args[c].id) :
                 /\ it.inner = args[c].inner
                 /\ it.published_at = published_table[args[c].id].published_at]_vars

\* C6: after put(item) the meta record of item.id exists with its published
\* reference populated, and get_by_id(item.id) returns Some item.
C6_PutCreatesItem ==
    [][\A c \in Clients, item \in Items :
         Put(c, item) =>
            /\ meta_table'[item.id] # Absent
            /\ meta_table'[item.id].published # NONE
            /\ ViewAfter(item.id) # {}]_vars

\* C7: delete(id) on an existing item completes and removes its published,
\* draft and meta records, so that get_by_id(id) returns None.
C7_DeleteRemovesAll ==
    [][\A c \in Clients, id \in Ids :
         (Delete(c, id) /\ meta_table[id] # Absent) =>
            /\ ret'.kind # "panic"
            /\ published_table'[id] = Absent
            /\ draft_table'[id] = Absent
            /\ meta_table'[id] = Absent
            /\ ViewAfter(id) = {}]_vars

\* C8: get_by_id(id) returns None exactly when no meta record exists for id;
\* when one exists it returns Some item, whether or not a published record
\* exists.
C8_NoneIffNoMeta ==
    [][\A c \in Clients, id \in Ids :
         GetById(c, id) =>
            /\ (ret'.kind = "none") <=> (meta_table[id] = Absent)
            /\ meta_table[id] # Absent =>
                 /\ ret'.kind = "some"
                 /\ \E it \in ret'.items : it.id = id]_vars

C8_Witness ==
    /\ ret.op = "get_by_id" /\ ret.kind = "some"
    /\ meta_table[ret.id] # Absent
    /\ meta_table[ret.id].published = NONE
    /\ published_table[ret.id] = Absent

\* C9: in every merged view returned by get_by_id, get_all and draft, inner
\* is the draft record's payload when the meta record's draft reference is
\* populated, and the published record's payload otherwise.
C9_DraftTakesPrecedence ==
    [][\A c \in Clients :
         ((\E id \in Ids : GetById(c, id)) \/ GetAll(c) \/ DraftSelect(c)) =>
            \A it \in ret'.items :
                /\ meta_table[it.id] # Absent
                /\ it.inner = IF meta_table[it.id].draft # NONE
                              THEN draft_table[it.id].inner
                              ELSE published_table[it.id].inner]_vars

C9_Witness ==
    /\ ret.op = "get_all"
    /\ \E x \in ret.items :
         /\ meta_table[x.id].draft # NONE /\ meta_table[x.id].published # NONE
         /\ draft_table[x.id].inner # published_table[x.id].inner
         /\ x.inner = draft_table[x.id].inner
    /\ \E y \in ret.items :
         /\ meta_table[y.id].draft = NONE
         /\ y.inner = published_table[y.id].inner

\* C10: get_all() returns exactly one entry per existing logical item (one
\* created by draft, by put, or by both) and nothing else.
C10_GetAllListsEveryItem ==
    [][\A c \in Clients :
         GetAll(c) =>
            /\ {it.id : it \in ret'.items} = {id \in Ids : Existing(id)}
            /\ Cardinality(ret'.items) = Cardinality({id \in Ids : Existing(id)})]_vars

\* C11: under any interleaving of draft calls on distinct ids, no statement of
\* a draft on one id creates, changes or removes the draft, meta or published
\* record of another id.
C11_DraftIsolation ==
    [][\A c \in Clients :
         (DraftUpsertDraft(c) \/ DraftUpsertMeta(c) \/ DraftSelect(c)) =>
            \A other \in Ids \ {args[c].id} :
                /\ draft_table'[other] = draft_table[other]
                /\ meta_table'[other] = meta_table[other]
                /\ published_table'[other] = published_table[other]]_vars

C11_Witness ==
    /\ \A c \in Clients : pc[c] = "select"
    /\ \A c, o \in Clients : c # o => args[c].id # args[o].id
    /\ \A c \in Clients :
         /\ draft_table[args[c].id] = [inner |-> args[c].inner]
         /\ meta_table[args[c].id] # Absent

\* C16: after any sequence of completed draft, put, delete_draft and delete
\* calls, a draft record or a published record exists for an id only while
\* the meta record of that id exists.
C16_MetaIffItem ==
    (\A c \in Clients : pc[c] = "idle") =>
        \A id \in Ids :
            (draft_table[id] # Absent \/ published_table[id] # Absent) =>
                meta_table[id] # Absent

\* C17: every existing meta record has at least one of its draft and
\* published references populated.
C17_MetaHasReference ==
    \A id \in Ids :
        meta_table[id] # Absent =>
            (meta_table[id].draft # NONE \/ meta_table[id].published # NONE)

C17_Witness ==
    /\ ret.op = "delete_draft"
    /\ meta_table[ret.id] # Absent
    /\ meta_table[ret.id].draft = ret.id
    /\ meta_table[ret.id].published = NONE

\* C18 (as stated): created_at never changes once the meta record exists,
\* and in every state modified_at is not earlier than created_at.
C18_ModifiedNeverBeforeCreated ==
    [][/\ \A id \in Ids :
            \A it \in GetByIdView(id) :
                /\ ViewAfter(id) # {}
                /\ \A jt \in ViewAfter(id) : jt.created_at = it.created_at
       /\ \A id \in Ids :
            \A jt \in ViewAfter(id) : jt.modified_at >= jt.created_at]_vars

\* C18 (amended): created_at, as get_by_id shows it, never changes once the
\* meta record exists (created_at is read from the meta record, so only a
\* step that changes that record can change it); every draft sets
\* modified_at to a clock value read during its meta upsert; and a draft that
\* finds the meta record already there leaves modified_at not earlier than
\* created_at.
C18_CreatedAtStable ==
    [][/\ \A id \in Ids :
            meta_table'[id] # meta_table[id] =>
            \A it \in GetByIdView(id) :
                /\ ViewAfter(id) # {}
                /\ \A jt \in ViewAfter(id) : jt.created_at = it.created_at
       /\ \A c \in Clients :
            DraftUpsertMeta(c) =>
                \A jt \in ViewAfter(args[c].id) :
                    /\ jt.modified_at \in now..now'
                    /\ GetByIdView(args[c].id) # {} =>
                         jt.modified_at >= jt.created_at]_vars

C18_Witness ==
    /\ ret.op = "draft" /\ ret.pre # NONE
    /\ \E it \in ret.items : it.modified_at > it.created_at

\* C19: put(item) leaves the draft record and the meta record of item.id as
\* they were, and leaves every record of every other id unchanged.
C19_PutFrame ==
    [][\A c \in Clients, item \in Items :
         Put(c, item) =>
            /\ draft_table' = draft_table
            /\ meta_table' = meta_table
            /\ \A other \in Ids \ {item.id} :
                 published_table'[other] = published_table[other]]_vars

C19_Witness ==
    /\ ret.op = "put"
    /\ draft_table[ret.id] # Absent
    /\ meta_table[ret.id] # Absent /\ meta_table[ret.id].draft = ret.id
    /\ \E other \in Ids \ {ret.id} :
         /\ published_table[other] # Absent
         /\ published_table[other] # published_table[ret.id]

\* C20: the final SELECT of draft(id, p) always finds the meta record of id,
\* also when other requests on the same id overlap it: draft returns an item
\* whose id is id and never aborts on the missing row.
C20_DraftFindsMeta ==
    /\ \A c \in Clients :
         pc[c] = "select" =>
            \E it \in GetByIdView(args[c].id) : it.id = args[c].id
    /\ ret.op = "draft" =>
         /\ ret.kind = "some"
         /\ ret.items # {}
         /\ \A it \in ret.items : it.id = ret.id

C20_Witness ==
    /\ ret.op = "draft" /\ ~ret.solo /\ ret.kind = "some"
    /\ \E it \in ret.items : it.id = ret.id /\ it.inner # ret.inner

\* C12: for two distinct document identifiers the three tables derived for
\* the one are disjoint from the three derived for the other.
C12_TablesDisjoint ==
    \A s, t \in submitted :
        (Safe(s.doc) /\ Safe(t.doc) /\ s.doc # t.doc) => s.table # t.table

\* C13: no statement is ever submitted with an identifier embedded in it
\* that contains a character unsafe in a table name.
C13_NoUnsafeIdentifierSubmitted ==
    \A s \in submitted : Safe(s.doc)

\* C14: authenticate returns BadToken exactly when the store reports an
\* invalid-token (Api::Query) or invalid-auth (Db::InvalidAuth) error, returns
\* every other store failure unchanged as Other, and never BadCredentials.
C14_AuthenticateMapping ==
    auth.op = "authenticate" =>
        /\ (auth.result.kind = "BadToken") <=>
              (auth.store \in {"Api::Query", "Db::InvalidAuth"})
        /\ auth.store \in {"Db::other", "Api::other"} =>
              auth.result = AuthResult("Other", auth.store)
        /\ auth.store = "Ok" => auth.result.kind = "Ok"
        /\ auth.result.kind # "BadCredentials"

C14_Witness ==
    /\ auth.op = "authenticate" /\ auth.input = "garbage"
    /\ auth.store = "Db::InvalidAuth"
    /\ auth.result.kind = "BadToken"

\* C15: signin signs in against the namespace and the database the store was
\* configured with, and the connection records the configured database.
C15_SigninUsesConfiguredDb ==
    /\ conn.open => conn.db = store_cfg.db
    /\ auth.op = "signin" =>
         /\ auth.namespace = store_cfg.namespace
         /\ auth.database = store_cfg.db

====
